---- MODULE Spec2Model ----
(***************************************************************************)
(* A model of rit (smklein/rit): the object store (database.rs), the       *)
(* lock file (lockfile.rs), the HEAD reference (refs.rs) and the init and  *)
(* commit commands (commands.rs), run by several processes on one          *)
(* repository.  Files hold byte sequences (bytes are 0..255, text is       *)
(* ASCII); every system call of a function is one step of the process      *)
(* that runs it, and a process may crash between any two steps.            *)
(***************************************************************************)
EXTENDS Integers, Sequences, FiniteSets, TLC

(* Bounds of the model: the processes, the calls they make in all, on the  *)
(* repository (Spec) and on the object store (SpecStore), and the entries  *)
(* of a tree (SpecTree).                                                   *)
NProc == 2
MaxCalls == 2
MaxStoreCalls == 3
MaxEntries == 3

Procs == 1..NProc

(***************************************************************************)
(* Bytes, text and files.                                                  *)
(***************************************************************************)

\* A path at which no file exists (no byte sequence: bytes are >= 0).
Absent == <<-1>>

\* The Err(..) of a Result whose Ok value is a byte sequence.
Err == <<-2>>

\* Option::None of an Option<ObjectID>.
None == <<-3>>

\* A write(2) that writes no byte, so that write_all never ends.
NextOffsStuck(off, len) == {off}

\* The position write_all can reach with its next write(2): the buffer is
\* written in at most two pieces, its first half and the rest.
NextOffs(off, len) ==
    IF off < len \div 2 THEN {len \div 2, len} ELSE {len}

\* The file after the bytes buf[off+1 .. n] are written at offset off
\* (a hole left by a truncation reads as zero bytes).
PWrite(file, buf, off, n) ==
    LET size == IF Len(file) > n THEN Len(file) ELSE n
    IN  [i \in 1..size |->
            IF i > off /\ i <= n THEN buf[i]
            ELSE IF i <= Len(file) THEN file[i] ELSE 0]

\* "ref: refs/heads/master\n"
InitHeadText ==
    <<114, 101, 102, 58, 32, 114, 101, 102, 115, 47, 104, 101, 97, 100,
      115, 47, 109, 97, 115, 116, 101, 114, 10>>

(***************************************************************************)
(* ObjectID (database.rs).                                                 *)
(***************************************************************************)

\* sha1::Sha1::output_size()
OutputSize == 20

\* hex::encode: two lowercase hex digits per byte, high nibble first.
HexDigit(n) == IF n < 10 THEN 48 + n ELSE 87 + n

\* A hex encoding that writes the low nibble of each byte first.
AsStrLowFirst(id) ==
    [i \in 1..(2 * Len(id)) |->
        IF i % 2 = 1 THEN HexDigit(id[(i + 1) \div 2] % 16)
                     ELSE HexDigit(id[i \div 2] \div 16)]

AsStr(id) ==
    [i \in 1..(2 * Len(id)) |->
        IF i % 2 = 1 THEN HexDigit(id[(i + 1) \div 2] \div 16)
                     ELSE HexDigit(id[i \div 2] % 16)]

\* The value of a hex digit of either case, -1 for any other byte.
HexVal(c) ==
    IF c >= 48 /\ c <= 57 THEN c - 48
    ELSE IF c >= 97 /\ c <= 102 THEN c - 87
    ELSE IF c >= 65 /\ c <= 70 THEN c - 55
    ELSE -1

\* hex::decode: Err on an odd length or on a byte that is no hex digit.
HexDecode(s) ==
    IF Len(s) % 2 = 1 \/ \E i \in 1..Len(s) : HexVal(s[i]) = -1
    THEN Err
    ELSE [i \in 1..(Len(s) \div 2) |-> 16 * HexVal(s[2 * i - 1]) + HexVal(s[2 * i])]

\* from_str without its check of the decoded length.
FromStrAnyLength(s) == HexDecode(s)

FromStr(s) ==
    LET id == HexDecode(s)
    IN  IF id = Err THEN Err
        ELSE IF Len(id) # OutputSize THEN Err
        ELSE id

\* The digest of a message.  SHA-1 itself is not computed: this is a
\* 20-byte digest that depends on every byte of the message and on its
\* length, and is injective on the objects of the model (DigestInjective).
\* Fold(m, i, n) is h(n) of h(0) = 0, h(k) = (31 * h(k-1) + m[k] * (i + k)) % 256,
\* computed by halves so that long messages need no deep recursion.
RECURSIVE Pow31(_)
Pow31(k) ==
    IF k = 0 THEN 1
    ELSE IF k % 2 = 0 THEN LET h == Pow31(k \div 2) IN (h * h) % 256
    ELSE (31 * Pow31(k - 1)) % 256

RECURSIVE FoldRange(_, _, _, _)
FoldRange(m, i, lo, hi) ==
    IF lo > hi THEN 0
    ELSE IF lo = hi THEN (m[lo] * (i + lo)) % 256
    ELSE LET mid == (lo + hi) \div 2
         IN  (FoldRange(m, i, lo, mid) * Pow31(hi - mid)
                + FoldRange(m, i, mid + 1, hi)) % 256

Fold(m, i, n) == FoldRange(m, i, 1, n)

\* Byte i of the digest is (Fold(m, i, Len(m)) + 7 * i + Len(m)) % 256; Fold
\* is linear in i, so it is computed for i = 0 and i = 1 only.
Sha1(m) ==
    LET n == Len(m)
        b == Fold(m, 0, n)
        a == (Fold(m, 1, n) - b + 256) % 256
    IN  [i \in 1..OutputSize |-> (((i * a + b) % 256) + 7 * i + n) % 256]


(***************************************************************************)
(* Storable (database.rs): blobs and commits (commit.rs, author.rs).       *)
(***************************************************************************)

\* The decimal digits of n, as format!("{}", n) prints them.
RECURSIVE Decimal(_)
Decimal(n) ==
    IF n < 10 THEN <<48 + n>> ELSE Decimal(n \div 10) \o <<48 + (n % 10)>>

\* type_name, one space, the decimal length of the data, one NUL, the data.
EncodedRaw(o) ==
    o.type \o <<32>> \o Decimal(Len(o.data)) \o <<0>> \o o.data

\* The sum of the bytes s[lo..hi], modulo 251, computed by halves.
RECURSIVE SumRange(_, _, _)
SumRange(s, lo, hi) ==
    IF lo > hi THEN 0
    ELSE IF lo = hi THEN s[lo] % 251
    ELSE LET mid == (lo + hi) \div 2
         IN  (SumRange(s, lo, mid) + SumRange(s, mid + 1, hi)) % 251

ByteSum(s, n) == SumRange(s, 1, n)

\* ZlibEncoder at Compression::fast().  The deflate coding is not computed:
\* the stream is the zlib header (0x78 0x01), the content and a checksum,
\* which keeps what the store relies on: Inflate(Deflate(s)) = s, and a
\* truncated stream does not inflate.
Deflate(s) == <<120, 1>> \o s \o <<ByteSum(s, Len(s))>>

Inflate(z) ==
    IF Len(z) < 3 THEN Err
    ELSE LET s == SubSeq(z, 3, Len(z) - 1)
         IN  IF z[1] = 120 /\ z[2] = 1 /\ z[Len(z)] = ByteSum(s, Len(s))
             THEN s ELSE Err

\* A serialization that compresses the data of the object without its header.
SerializeData(o) == Deflate(o.data)

Serialize(o) == Deflate(EncodedRaw(o))

\* An id that is the digest of the compressed bytes of the object.
OidOfCompressed(o) == Sha1(Deflate(EncodedRaw(o)))

Oid(o) == Sha1(EncodedRaw(o))

\* Blob::new
Blob(data) == [type |-> <<98, 108, 111, 98>>, data |-> data]

\* Author::to_str: "{name} <{email}> {epoch seconds} {offset}"; the time is
\* converted to Utc before it is formatted, so %z always prints +0000.
AuthorToStr(a) ==
    a.name \o <<32, 60>> \o a.email \o <<62, 32>> \o Decimal(a.time)
        \o <<32, 43, 48, 48, 48, 48>>

\* Commit::new with parent_msg always empty.
CommitNewParentless(parent, oid, author, message) ==
    [type |-> <<99, 111, 109, 109, 105, 116>>,
     data |-> <<116, 114, 101, 101, 32>> \o AsStr(oid) \o <<10>>
                \o <<97, 117, 116, 104, 111, 114, 32>> \o AuthorToStr(author) \o <<10>>
                \o <<99, 111, 109, 109, 105, 116, 116, 101, 114, 32>>
                \o AuthorToStr(author) \o <<10>>
                \o <<10>>
                \o message]

\* Commit::new
CommitNew(parent, oid, author, message) ==
    LET parent_msg ==
            IF parent # None
            THEN <<112, 97, 114, 101, 110, 116, 32>> \o AsStr(parent) \o <<10>>
            ELSE <<>>
    IN  [type |-> <<99, 111, 109, 109, 105, 116>>,
         data |-> parent_msg
                    \o <<116, 114, 101, 101, 32>> \o AsStr(oid) \o <<10>>
                    \o <<97, 117, 116, 104, 111, 114, 32>> \o AuthorToStr(author) \o <<10>>
                    \o <<99, 111, 109, 109, 105, 116, 116, 101, 114, 32>>
                    \o AuthorToStr(author) \o <<10>>
                    \o <<10>>
                    \o message]

(***************************************************************************)
(* The objects the processes of the model store: the blobs of the files    *)
(* "hi" and "hello" that the tests of commands.rs create.                  *)
(***************************************************************************)
Objects == {Blob(<<104, 105>>), Blob(<<104, 101, 108, 108, 111>>)}

\* object.oid().as_str() and object.serialize() of the objects of the model,
\* computed once.
HexTable == [o \in Objects |-> AsStr(Oid(o))]

ContentTable == [o \in Objects |-> Serialize(o)]

Hex(o) == HexTable[o]

Content(o) == ContentTable[o]

HexIds == {Hex(o) : o \in Objects}

\* Database::store, lines 109-125: root/<first 2 hex>/<remaining 38 hex>,
\* and beside it the temporary file <remaining 38 hex>.tmp.
Prefix(hex) == SubSeq(hex, 1, 2)

Suffix(hex) == SubSeq(hex, 3, Len(hex))

FinalPath(hex) == <<Prefix(hex), Suffix(hex)>>

\* A store that writes the object at its final path.
TmpPathInPlace(hex) == <<Prefix(hex), Suffix(hex)>>

TmpPath(hex) == <<Prefix(hex), Suffix(hex) \o <<46, 116, 109, 112>>>>

StorePaths == {FinalPath(h) : h \in HexIds} \cup {TmpPath(h) : h \in HexIds}

(***************************************************************************)
(* The state: the repository on disk, and each process's position.         *)
(***************************************************************************)
VARIABLES
    dirs,        \* the directories that exist, among .git, .git/objects, .git/refs
    head,        \* the bytes of .git/HEAD, or Absent
    headLock,    \* the bytes of .git/HEAD.lock, or Absent
    shards,      \* the two-character directories that exist in .git/objects
    odb,         \* the bytes of each file in .git/objects, or Absent
    pc,          \* where each process is in the function it runs
    op,          \* the function each process called last
    oid,         \* update_head: the ObjectID passed
    obj,         \* store: the object passed
    off,         \* the bytes the write_all in progress has written
    fdLive,      \* init: the file the process has open is still .git/HEAD
    msg,         \* commit: args.message
    files,       \* commit: the list list_files returned; Tree::new: the entries passed
    result,      \* what each process's last call returned
    ncalls,      \* the calls made so far
    conc,        \* the processes whose calls overlapped each process's last call
    lastCommit,  \* the process whose LockFile::commit came last, if any
    hadFinal,    \* store: the object's final path existed when store was called
    args         \* the arguments of the function called that no other variable holds

vars ==
    <<dirs, head, headLock, shards, odb, pc, op, oid, obj, off, fdLive, msg,
      files, result, ncalls, conc, lastCommit, hadFinal, args>>

refsVars == <<dirs, head, headLock, oid, fdLive, msg, files, lastCommit>>

storeVars == <<shards, odb, obj, hadFinal>>

\* No process has called anything yet, nothing is locked and nothing is stored.
InitRest ==
    /\ headLock = Absent
    /\ shards = {}
    /\ odb = [f \in StorePaths |-> Absent]
    /\ pc = [p \in Procs |-> "idle"]
    /\ op = [p \in Procs |-> "none"]
    /\ oid = [p \in Procs |-> None]
    /\ off = [p \in Procs |-> 0]
    /\ fdLive = [p \in Procs |-> FALSE]
    /\ msg = [p \in Procs |-> None]
    /\ result = [p \in Procs |-> "none"]
    /\ ncalls = 0
    /\ conc = [p \in Procs |-> {}]
    /\ lastCommit = {}
    /\ hadFinal = [p \in Procs |-> FALSE]

\* A repository is either not there yet or as a finished init left it.
Init ==
    /\ \/ dirs = {} /\ head = Absent
       \/ dirs = {"git", "objects", "refs"} /\ head = InitHeadText
    /\ obj = [p \in Procs |-> Blob(<<>>)]
    /\ files = [p \in Procs |-> <<>>]
    /\ args = [p \in Procs |-> <<>>]
    /\ InitRest

InFlight == {q \in Procs : pc[q] \notin {"idle", "crashed"}}

\* Process p enters function f at its first step.
Call(p, f, first, max) ==
    /\ pc[p] = "idle"
    /\ ncalls < max
    /\ ncalls' = ncalls + 1
    /\ pc' = [pc EXCEPT ![p] = first]
    /\ op' = [op EXCEPT ![p] = f]
    /\ off' = [off EXCEPT ![p] = 0]
    /\ result' = [result EXCEPT ![p] = "none"]
    /\ conc' = [q \in Procs |->
                    IF q = p THEN InFlight
                    ELSE IF q \in InFlight THEN conc[q] \cup {p} ELSE conc[q]]
    /\ args' = args

\* Process p returns r from the function it runs.
Return(p, r) ==
    /\ pc' = [pc EXCEPT ![p] = "idle"]
    /\ result' = [result EXCEPT ![p] = r]
    /\ UNCHANGED <<op, ncalls, conc, args>>

Goto(p, next) ==
    /\ pc' = [pc EXCEPT ![p] = next]
    /\ UNCHANGED <<result, op, ncalls, conc, args>>

\* A write that is taken to be complete after its first piece (write for
\* write_all).
WriteDoneShort(n, len) == n >= len \div 2

\* write_all has written the whole buffer.
WriteDone(n, len) == n = len

\* A commit of the lock that removes the lock file and publishes nothing.
RenameUnlink(fs, from, to) == [fs EXCEPT ![from] = Absent]

\* A commit of the lock that copies the lock file onto the path and leaves
\* the lock file in place.
RenameCopy(fs, from, to) == [fs EXCEPT ![to] = fs[from]]

\* std::fs::rename: the file at `from` replaces the one at `to`.
Rename(fs, from, to) ==
    IF from = to THEN fs ELSE [fs EXCEPT ![to] = fs[from], ![from] = Absent]

(***************************************************************************)
(* Database::store (database.rs, lines 106-143).                           *)
(***************************************************************************)

\* A store without its check for an existing object.
StoreExistsNever(fs, hex) == FALSE

\* final_path.exists()
StoreExists(fs, hex) == fs[FinalPath(hex)] # Absent

StoreCall(p) ==
    \E o \in Objects :
        /\ Call(p, "store", "st_mkdir", MaxStoreCalls)
        /\ obj' = [obj EXCEPT ![p] = o]
        /\ hadFinal' = [hadFinal EXCEPT ![p] = odb[FinalPath(Hex(o))] # Absent]
        /\ UNCHANGED <<shards, odb, refsVars>>

\* create_dir_all(&path)
StoreMkdir(p) ==
    /\ pc[p] = "st_mkdir"
    /\ shards' = shards \cup {Prefix(Hex(obj[p]))}
    /\ Goto(p, "st_exists")
    /\ UNCHANGED <<odb, obj, hadFinal, off, refsVars>>

\* if final_path.exists() { return Ok(()); }
StoreCheck(p) ==
    /\ pc[p] = "st_exists"
    /\ IF StoreExists(odb, Hex(obj[p]))
       THEN Return(p, "ok")
       ELSE Goto(p, "st_open")
    /\ UNCHANGED <<storeVars, off, refsVars>>

\* OpenOptions::new().read(true).write(true).create_new(true).open(&tmp_path)?
StoreOpen(p) ==
    LET tmp == TmpPath(Hex(obj[p]))
    IN  /\ pc[p] = "st_open"
        /\ IF odb[tmp] # Absent
           THEN Return(p, "exists") /\ odb' = odb
           ELSE Goto(p, "st_write") /\ odb' = [odb EXCEPT ![tmp] = <<>>]
        /\ UNCHANGED <<shards, obj, hadFinal, off, refsVars>>

\* file.write_all(&content)?: one write(2)
StoreWrite(p) ==
    LET tmp == TmpPath(Hex(obj[p]))
        content == Content(obj[p])
    IN  /\ pc[p] = "st_write"
        /\ \E n \in NextOffs(off[p], Len(content)) :
            /\ odb' = [odb EXCEPT ![tmp] = PWrite(odb[tmp], content, off[p], n)]
            /\ off' = [off EXCEPT ![p] = n]
            /\ Goto(p, IF WriteDone(n, Len(content)) THEN "st_rename" ELSE "st_write")
        /\ UNCHANGED <<shards, obj, hadFinal, refsVars>>

\* rename(tmp_path, final_path)?; Ok(())
StoreRename(p) ==
    LET hex == Hex(obj[p])
    IN  /\ pc[p] = "st_rename"
        /\ IF odb[TmpPath(hex)] = Absent
           THEN Return(p, "io") /\ odb' = odb
           ELSE Return(p, "ok") /\ odb' = Rename(odb, TmpPath(hex), FinalPath(hex))
        /\ UNCHANGED <<shards, obj, hadFinal, off, refsVars>>

\* A failed write after which store removes its temporary file.
StoreWriteFailCleanup(p) ==
    /\ pc[p] = "st_write"
    /\ Return(p, "io")
    /\ odb' = [odb EXCEPT ![TmpPath(Hex(obj[p]))] = Absent]
    /\ UNCHANGED <<shards, obj, hadFinal, off, refsVars>>

\* write_all fails (disk full): store returns the error, the temporary file stays.
StoreWriteFail(p) ==
    /\ pc[p] = "st_write"
    /\ Return(p, "io")
    /\ UNCHANGED <<storeVars, off, refsVars>>

\* The process dies where it is: its files are closed, and what it has
\* written stays on disk.
Crash(p) ==
    /\ pc[p] \notin {"idle", "crashed"}
    /\ pc' = [pc EXCEPT ![p] = "crashed"]
    /\ fdLive' = [fdLive EXCEPT ![p] = FALSE]
    /\ files' = [files EXCEPT ![p] = <<>>]
    /\ UNCHANGED <<storeVars, op, off, result, ncalls, conc,
                   dirs, head, headLock, oid, msg, lastCommit, args>>

NextStore ==
    \E p \in Procs :
        \/ StoreCall(p)
        \/ StoreMkdir(p)
        \/ StoreCheck(p)
        \/ StoreOpen(p)
        \/ StoreWrite(p)
        \/ StoreRename(p)
        \/ StoreWriteFail(p)
        \/ Crash(p)

\* Database::store is called on the object store of an initialized repository.
InitStore == Init /\ dirs # {}

SpecStore == InitStore /\ [][NextStore]_vars

(***************************************************************************)
(* ObjectIDs passed to update_head: the ids of the objects of the model.   *)
(***************************************************************************)
OidTable == [o \in Objects |-> Oid(o)]

HeadIds == {OidTable[o] : o \in Objects}

HeadHexTable == [id \in HeadIds |-> AsStr(id)]

(***************************************************************************)
(* LockFile (lockfile.rs) and Refs (refs.rs).                              *)
(***************************************************************************)

\* An open of the lock file with create in place of create_new.
LockFileNewShared(lock) == TRUE

\* LockFile::new: OpenOptions::new().write(true).create_new(true) succeeds
\* only if the lock file does not exist.
LockFileNew(lock) == lock = Absent

\* u8::is_ascii_whitespace, and the Unicode White_Space of the ASCII range.
IsWhitespace(c) == c \in {9, 10, 11, 12, 13, 32}

\* Refs::read_head: the file's bytes as UTF-8, every whitespace character
\* dropped (split_whitespace().collect()), parsed by ObjectID::from_str.
ReadHead(file) ==
    IF file = Absent THEN Err
    ELSE IF \E i \in 1..Len(file) : file[i] >= 128 THEN Err
    ELSE FromStr(SelectSeq(file, LAMBDA c : ~IsWhitespace(c)))

UpdateHeadCall(p) ==
    \E id \in HeadIds :
        /\ Call(p, "update_head", "uh_new", MaxCalls)
        /\ oid' = [oid EXCEPT ![p] = id]
        /\ UNCHANGED <<dirs, head, headLock, fdLive, msg, files, lastCommit, storeVars>>

\* let mut head = LockFile::new(self.head_path())?;
UpdateHeadNew(p) ==
    /\ pc[p] = "uh_new"
    /\ IF "git" \notin dirs
       THEN Return(p, "io") /\ headLock' = headLock
       ELSE IF ~LockFileNew(headLock)
       THEN Return(p, "locked") /\ headLock' = headLock
       ELSE /\ Goto(p, "uh_write")
            /\ headLock' = IF headLock = Absent THEN <<>> ELSE headLock
    /\ UNCHANGED <<dirs, head, oid, fdLive, msg, files, lastCommit, off, storeVars>>

\* head.writer().write_all(oid.as_str().as_bytes())?: one write(2)
UpdateHeadWrite(p) ==
    LET text == HeadHexTable[oid[p]]
    IN  /\ pc[p] = "uh_write"
        /\ \E n \in NextOffs(off[p], Len(text)) :
            /\ headLock' = PWrite(headLock, text, off[p], n)
            /\ off' = [off EXCEPT ![p] = n]
            /\ Goto(p, IF WriteDone(n, Len(text)) THEN "uh_commit" ELSE "uh_write")
        /\ UNCHANGED <<dirs, head, oid, fdLive, msg, files, lastCommit, storeVars>>

\* A failed write after which the lock file is removed, as a Drop of
\* LockFile that unlinks it would do.
UpdateHeadWriteFailUnlock(p) ==
    /\ pc[p] = "uh_write"
    /\ Return(p, "io")
    /\ off' = [off EXCEPT ![p] = 0]
    /\ headLock' = Absent
    /\ UNCHANGED <<dirs, head, oid, fdLive, msg, files, lastCommit, storeVars>>

\* write_all fails: update_head returns the error and the lock file stays.
UpdateHeadWriteFail(p) ==
    /\ pc[p] = "uh_write"
    /\ Return(p, "io")
    /\ off' = [off EXCEPT ![p] = 0]
    /\ UNCHANGED <<refsVars, storeVars>>

\* head.commit(): LockFile::commit renames HEAD.lock onto HEAD.  A file
\* that another process has open at HEAD is no longer HEAD after it.
UpdateHeadCommit(p) ==
    /\ pc[p] = "uh_commit"
    /\ IF headLock = Absent
       THEN /\ Return(p, "io")
            /\ UNCHANGED <<head, headLock, fdLive, lastCommit>>
       ELSE LET fs == Rename([HEAD |-> head, LOCK |-> headLock], "LOCK", "HEAD")
            IN  /\ Return(p, "ok")
                /\ head' = fs.HEAD
                /\ headLock' = fs.LOCK
                /\ fdLive' = [q \in Procs |-> FALSE]
                /\ lastCommit' = {p}
    /\ off' = [off EXCEPT ![p] = 0]
    /\ UNCHANGED <<dirs, oid, msg, files, storeVars>>

(***************************************************************************)
(* init (commands.rs, lines 19-41).                                        *)
(***************************************************************************)
InitCall(p) ==
    /\ Call(p, "init", "init_objects", MaxCalls)
    /\ UNCHANGED <<refsVars, storeVars>>

\* create_dir_all(".git/objects")
InitObjects(p) ==
    /\ pc[p] = "init_objects"
    /\ dirs' = dirs \cup {"git", "objects"}
    /\ Goto(p, "init_refs")
    /\ UNCHANGED <<head, headLock, oid, fdLive, msg, files, lastCommit, off, storeVars>>

\* create_dir_all(".git/refs")
InitRefs(p) ==
    /\ pc[p] = "init_refs"
    /\ dirs' = dirs \cup {"git", "refs"}
    /\ Goto(p, "init_open")
    /\ UNCHANGED <<head, headLock, oid, fdLive, msg, files, lastCommit, off, storeVars>>

\* std::fs::write(path.join("HEAD"), ..): File::create opens HEAD, creating
\* or truncating it
InitOpen(p) ==
    /\ pc[p] = "init_open"
    /\ head' = <<>>
    /\ fdLive' = [fdLive EXCEPT ![p] = TRUE]
    /\ Goto(p, "init_write")
    /\ UNCHANGED <<dirs, headLock, oid, msg, files, lastCommit, off, storeVars>>

\* std::fs::write: write_all("ref: refs/heads/master\n"), one write(2);
\* after the last one init prints the path and returns Ok(())
InitWrite(p) ==
    /\ pc[p] = "init_write"
    /\ \E n \in NextOffs(off[p], Len(InitHeadText)) :
        /\ head' = IF fdLive[p] THEN PWrite(head, InitHeadText, off[p], n) ELSE head
        /\ IF WriteDone(n, Len(InitHeadText))
           THEN /\ Return(p, "ok")
                /\ fdLive' = [fdLive EXCEPT ![p] = FALSE]
                /\ off' = [off EXCEPT ![p] = 0]
           ELSE /\ Goto(p, "init_write")
                /\ fdLive' = fdLive
                /\ off' = [off EXCEPT ![p] = n]
    /\ UNCHANGED <<dirs, headLock, oid, msg, files, lastCommit, storeVars>>

\* write_all fails: init returns the error
InitWriteFail(p) ==
    /\ pc[p] = "init_write"
    /\ Return(p, "io")
    /\ fdLive' = [fdLive EXCEPT ![p] = FALSE]
    /\ off' = [off EXCEPT ![p] = 0]
    /\ UNCHANGED <<dirs, head, headLock, oid, msg, files, lastCommit, storeVars>>

(***************************************************************************)
(* commit (commands.rs, lines 51-133).                                     *)
(***************************************************************************)

\* The list that list_files returns in the workspace of test_commit_nested
\* (a directory follows what it contains).
NestedListing ==
    << <<"file.txt">>,
       <<"subdir", "file.txt">>,
       <<"subdir", "nested", "file.txt">>,
       <<"subdir", "nested">>,
       <<"subdir">> >>

\* A WorkspacePath is the sequence of its components.  The lists that
\* list_files returns in the model: those of a workspace with file.txt, of
\* one with subdir/file.txt, and of the workspace of test_commit_nested.
Listings ==
    { << <<"file.txt">> >>,
      << <<"subdir", "file.txt">>, <<"subdir">> >>,
      NestedListing }

\* args.message: None, Some(""), Some("message")
Messages == {None, <<>>, <<109, 101, 115, 115, 97, 103, 101>>}

\* Tree::build (tree.rs, lines 99-119): the entries are sorted and added to
\* a TreeNode, which is printed and dropped; whatever the entries are, the
\* function ends in Err(anyhow!("nah")) (or in an Err or a panic of
\* add_entry before that).
TreeBuild(entries) == Err

CommitCall(p) ==
    \E m \in Messages :
        /\ Call(p, "commit", "c_list", MaxCalls)
        /\ msg' = [msg EXCEPT ![p] = m]
        /\ UNCHANGED <<dirs, head, headLock, oid, fdLive, files, lastCommit, storeVars>>

\* let files = workspace.list_files()?;
CommitList(p) ==
    /\ pc[p] = "c_list"
    /\ \E l \in Listings : files' = [files EXCEPT ![p] = l]
    /\ Goto(p, "c_build")
    /\ UNCHANGED <<dirs, head, headLock, oid, fdLive, msg, lastCommit, off, storeVars>>

\* list_files fails (read_dir): commit returns the error
CommitListFail(p) ==
    /\ pc[p] = "c_list"
    /\ Return(p, "io")
    /\ UNCHANGED <<refsVars, off, storeVars>>

\* Tree::build(&workspace, files.clone()).unwrap(): the Err makes unwrap
\* panic, and commit ends here: nothing of lines 67-132 is ever run.
CommitBuild(p) ==
    /\ pc[p] = "c_build"
    /\ TreeBuild(files[p]) = Err
    /\ Return(p, "panic")
    /\ files' = [files EXCEPT ![p] = <<>>]
    /\ UNCHANGED <<dirs, head, headLock, oid, fdLive, msg, lastCommit, off, storeVars>>

Next ==
    \E p \in Procs :
        \/ InitCall(p)
        \/ InitObjects(p)
        \/ InitRefs(p)
        \/ InitOpen(p)
        \/ InitWrite(p)
        \/ InitWriteFail(p)
        \/ UpdateHeadCall(p)
        \/ UpdateHeadNew(p)
        \/ UpdateHeadWrite(p)
        \/ UpdateHeadWriteFail(p)
        \/ UpdateHeadCommit(p)
        \/ CommitCall(p)
        \/ CommitList(p)
        \/ CommitListFail(p)
        \/ CommitBuild(p)
        \/ Crash(p)

Spec == Init /\ [][Next]_vars

(***************************************************************************)
(* HEAD and its lock: claims C1 and C2.                                    *)
(***************************************************************************)

\* The only two calls made are update_head calls of p and q with different
\* ids, they overlapped, and each has returned success or a failed
\* acquisition (no I/O failure, no crash).
C1_Scenario(p, q) ==
    /\ p # q
    /\ ncalls = 2
    /\ op[p] = "update_head" /\ op[q] = "update_head"
    /\ oid[p] # oid[q]
    /\ q \in conc[p]
    /\ pc[p] = "idle" /\ pc[q] = "idle"
    /\ result[p] \in {"ok", "locked"} /\ result[q] \in {"ok", "locked"}

\* C1 as claimed: of two concurrent update_head calls exactly one returns
\* success, the other fails at the acquisition, and HEAD holds the hex id
\* of the successful one.
C1_ExactlyOne ==
    \A p, q \in Procs :
        C1_Scenario(p, q) =>
            \/ result[p] = "ok" /\ result[q] = "locked" /\ head = AsStr(oid[p])
            \/ result[q] = "ok" /\ result[p] = "locked" /\ head = AsStr(oid[q])

\* C1, amended: of two concurrent update_head calls at least one returns
\* success, a call that fails fails at the acquisition, the lock is
\* released, and HEAD holds the hex id of the successful call whose
\* LockFile::commit came last.
C1_AtLeastOne ==
    \A p, q \in Procs :
        C1_Scenario(p, q) =>
            /\ result[p] = "ok" \/ result[q] = "ok"
            /\ \E w \in {p, q} :
                /\ lastCommit = {w}
                /\ result[w] = "ok"
                /\ head = AsStr(oid[w])
            /\ headLock = Absent

\* Two concurrent calls have returned, one with success and the other
\* refused the lock, and HEAD holds the id of the first.
C1_Witness ==
    \E p, q \in Procs :
        /\ C1_Scenario(p, q)
        /\ result[p] = "ok" /\ result[q] = "locked"
        /\ head = AsStr(oid[p])

\* Process p is between its successful LockFile::new and its commit.
HoldsLock(p) == pc[p] \in {"uh_write", "uh_commit"}

\* C2: at most one process at a time is between a successful
\* LockFile::new(HEAD) and its LockFile::commit, and HEAD.lock exists then.
C2_MutualExclusion ==
    /\ Cardinality({p \in Procs : HoldsLock(p)}) <= 1
    /\ (\E p \in Procs : HoldsLock(p)) => headLock # Absent

\* A process holds the lock, and another, whose call overlapped, has been
\* refused it.
C2_Witness ==
    \E p, q \in Procs :
        /\ HoldsLock(p)
        /\ p \in conc[q]
        /\ op[q] = "update_head" /\ pc[q] = "idle" /\ result[q] = "locked"

(***************************************************************************)
(* The commit command: claims C3, C4, C9 and C10.  Each is stated for a    *)
(* commit that is the only call made, in an initialized repository, with   *)
(* a message, and that has ended without an I/O failure or a crash.        *)
(***************************************************************************)

CommitRan(p) ==
    /\ ncalls = 1
    /\ op[p] = "commit"
    /\ pc[p] = "idle"
    /\ result[p] # "io"
    /\ msg[p] # None /\ msg[p] # <<>>
    /\ {"git", "objects", "refs"} \subseteq dirs

IsPrefix(a, s) == Len(a) <= Len(s) /\ SubSeq(s, 1, Len(a)) = a

\* The payload of a canonical encoding: the bytes after its first NUL.
Payload(enc) ==
    IF \E i \in 1..Len(enc) : enc[i] = 0
    THEN LET i == CHOOSE i \in 1..Len(enc) :
                    enc[i] = 0 /\ \A j \in 1..(i - 1) : enc[j] # 0
         IN  SubSeq(enc, i + 1, Len(enc))
    ELSE Err

\* The stored object that HEAD names: its canonical encoding, or Err if HEAD
\* holds no id or the object is not in the store.
HeadObject ==
    LET id == ReadHead(head)
    IN  IF id = Err THEN Err
        ELSE IF FinalPath(AsStr(id)) \notin DOMAIN odb THEN Err
        ELSE IF odb[FinalPath(AsStr(id))] = Absent THEN Err
        ELSE Inflate(odb[FinalPath(AsStr(id))])

StorePcs == {"st_mkdir", "st_exists", "st_open", "st_write", "st_rename"}

\* The digest is injective on the objects of the model, as SHA-1 is taken to be.
DigestInjective == \A o1, o2 \in Objects : Oid(o1) = Oid(o2) => o1 = o2

\* C5: whenever the final path of an object exists, it holds the complete
\* compressed canonical encoding of the object with that id; bytes of a
\* write in progress are only ever in a temporary file.
C5_FinalIsComplete ==
    /\ \A o \in Objects :
        LET f == odb[FinalPath(Hex(o))]
        IN  f # Absent =>
                /\ f = Content(o)
                /\ Inflate(f) = EncodedRaw(o)
                /\ AsStr(Sha1(Inflate(f))) = Hex(o)
    /\ \A path \in StorePaths :
        (odb[path] # Absent /\ \A o \in Objects : odb[path] # Content(o))
            => \E o \in Objects : path = TmpPath(Hex(o)) /\ path # FinalPath(Hex(o))

\* An object is at its final path while a later writer of the same object,
\* which passed the existence check before the rename, has part of it in
\* the temporary file.
C5_Witness ==
    \E o \in Objects :
        /\ odb[FinalPath(Hex(o))] # Absent
        /\ odb[TmpPath(Hex(o))] # Absent
        /\ Len(odb[TmpPath(Hex(o))]) > 0
        /\ Len(odb[TmpPath(Hex(o))]) < Len(Serialize(o))

\* C6 as claimed: two overlapping store calls of one object, with no I/O
\* failure and no crash, both return success and the object is stored.
C6_BothSucceed ==
    \A p, q \in Procs :
        ( /\ p # q
          /\ ncalls = 2
          /\ op[p] = "store" /\ op[q] = "store"
          /\ obj[p] = obj[q]
          /\ q \in conc[p]
          /\ pc[p] = "idle" /\ pc[q] = "idle"
          /\ result[p] # "io" /\ result[q] # "io" )
        => /\ result[p] = "ok"
           /\ result[q] = "ok"
           /\ odb[FinalPath(Hex(obj[p]))] = Serialize(obj[p])

\* C7: a store called when the object's final path exists takes no step
\* that changes a file of the store (it rewrites nothing and creates no
\* temporary file), gets no further than the existence check, and returns
\* success.
C7_Idempotent ==
    [][\A p \in Procs :
        (hadFinal[p] /\ pc[p] \in StorePcs /\ pc'[p] # pc[p])
            => /\ odb' = odb
               /\ pc'[p] \in {"st_exists", "idle", "crashed"}
               /\ (pc'[p] = "idle" => result'[p] = "ok")]_vars

\* A second store of a stored object has returned success, and the object
\* has exactly one copy on disk: its final path, and no temporary file.
C7_Witness ==
    \E p \in Procs :
        /\ hadFinal[p] /\ op[p] = "store" /\ pc[p] = "idle" /\ result[p] = "ok"
        /\ odb[FinalPath(Hex(obj[p]))] = Serialize(obj[p])
        /\ odb[TmpPath(Hex(obj[p]))] = Absent

\* C8: once a final path exists, no step removes it or changes its bytes.
C8_AppendOnly ==
    [][\A o \in Objects :
        odb[FinalPath(Hex(o))] # Absent
            => odb'[FinalPath(Hex(o))] = odb[FinalPath(Hex(o))]]_vars

\* Two processes have each written and renamed the same object (the second
\* rename landed on the existing final path), and the other object is
\* stored as well.
C8_Witness ==
    /\ \A o \in Objects : odb[FinalPath(Hex(o))] # Absent
    /\ \E p, q \in Procs :
        /\ p # q /\ obj[p] = obj[q]
        /\ pc[p] = "idle" /\ pc[q] = "idle"
        /\ result[p] = "ok" /\ result[q] = "ok"
        /\ off[p] = Len(Serialize(obj[p])) /\ off[q] = Len(Serialize(obj[q]))

(***************************************************************************)
(* The lock file: claims C11 and C12.                                      *)
(***************************************************************************)

\* C11: the step of LockFile::new(HEAD) taken while HEAD.lock exists ends the
\* call at once with the acquisition error, and leaves HEAD and HEAD.lock,
\* with the bytes its holder has staged, as they were.
C11_FailsAtOnce ==
    [][\A p \in Procs :
        (pc[p] = "uh_new" /\ pc'[p] \notin {"uh_new", "crashed"} /\ headLock # Absent)
            => /\ pc'[p] = "idle"
               /\ result'[p] = "locked"
               /\ head' = head
               /\ headLock' = headLock]_vars

\* A call has been refused the lock while its holder, still at work, has
\* staged bytes in it.
C11_Witness ==
    \E p, q \in Procs :
        /\ HoldsLock(p)
        /\ headLock # Absent /\ Len(headLock) > 0
        /\ op[q] = "update_head" /\ pc[q] = "idle" /\ result[q] = "locked"
        /\ ncalls = 2

\* C12: a step of the holder of the lock other than a successful
\* LockFile::commit (a write through the writer, a failed write) leaves HEAD
\* as it is, and a successful LockFile::commit in one step makes HEAD hold
\* exactly the bytes staged in HEAD.lock and removes HEAD.lock.
C12_PublishedAtCommit ==
    [][\A p \in Procs :
        (HoldsLock(p) /\ (pc'[p] # pc[p] \/ off'[p] # off[p]))
            => IF pc[p] = "uh_commit" /\ pc'[p] = "idle" /\ result'[p] = "ok"
               THEN head' = headLock /\ headLock' = Absent
               ELSE head' = head]_vars

\* An update_head in a repository whose HEAD held the text init wrote has
\* committed: HEAD holds the whole staged id and the lock is gone.
C12_Witness ==
    \E p \in Procs :
        /\ ncalls = 1
        /\ op[p] = "update_head" /\ pc[p] = "idle" /\ result[p] = "ok"
        /\ head = AsStr(oid[p])
        /\ headLock = Absent

(***************************************************************************)
(* Where and how an object is stored: claim C13.                           *)
(***************************************************************************)

\* C13: after a successful store of an object that the store did not hold,
\* the object's file is in the directory named by the first 2 hex characters
\* of its id, under the name of the remaining 38, and inflating the file
\* gives exactly the canonical encoding of the object.
C13_StoredAtPath ==
    \A p \in Procs :
        (op[p] = "store" /\ pc[p] = "idle" /\ result[p] = "ok" /\ ~hadFinal[p])
            => LET hex == Hex(obj[p])
                   path == <<SubSeq(hex, 1, 2), SubSeq(hex, 3, 40)>>
               IN  /\ Len(hex) = 40
                   /\ SubSeq(hex, 1, 2) \in shards
                   /\ path \in DOMAIN odb
                   /\ odb[path] # Absent
                   /\ Inflate(odb[path]) = EncodedRaw(obj[p])

\* The first store of an object has written the whole file itself and
\* returned success.
C13_Witness ==
    \E p \in Procs :
        /\ ncalls = 1
        /\ op[p] = "store" /\ pc[p] = "idle" /\ result[p] = "ok" /\ ~hadFinal[p]
        /\ off[p] = Len(Serialize(obj[p]))
        /\ odb[FinalPath(Hex(obj[p]))] # Absent

(***************************************************************************)
(* Entry (entry.rs) and Tree (tree.rs).  Here a WorkspacePath is the bytes *)
(* of its PathBuf, a relative path whose separator is '/' (47).            *)
(***************************************************************************)

\* Ord of a byte slice (Vec<u8>, OsStr): lexicographic, -1, 0 or 1.
SliceCmp(a, b) ==
    LET n == IF Len(a) < Len(b) THEN Len(a) ELSE Len(b)
        d == {i \in 1..n : a[i] # b[i]}
    IN  IF d # {}
        THEN LET i == CHOOSE i \in d : \A j \in d : i <= j
             IN  IF a[i] < b[i] THEN -1 ELSE 1
        ELSE IF Len(a) < Len(b) THEN -1
        ELSE IF Len(a) > Len(b) THEN 1
        ELSE 0

\* Path::components of a relative path: the pieces between separators
\* (an empty piece, left by a repeated or trailing separator, is no
\* component).
RECURSIVE Components(_)
Components(path) ==
    IF path = <<>> THEN <<>>
    ELSE IF \E i \in 1..Len(path) : path[i] = 47
    THEN LET i == CHOOSE i \in 1..Len(path) :
                    path[i] = 47 /\ \A j \in 1..(i - 1) : path[j] # 47
             rest == Components(SubSeq(path, i + 1, Len(path)))
         IN  IF i = 1 THEN rest ELSE <<SubSeq(path, 1, i - 1)>> \o rest
    ELSE <<path>>

\* Ord of PathBuf, which WorkspacePath derives: the components are compared
\* one by one, each as a byte slice.
PathCmp(x, y) ==
    LET cx == Components(x)
        cy == Components(y)
        n == IF Len(cx) < Len(cy) THEN Len(cx) ELSE Len(cy)
        d == {i \in 1..n : cx[i] # cy[i]}
    IN  IF d # {}
        THEN LET i == CHOOSE i \in d : \A j \in d : i <= j
             IN  SliceCmp(cx[i], cy[i])
        ELSE IF Len(cx) < Len(cy) THEN -1
        ELSE IF Len(cx) > Len(cy) THEN 1
        ELSE 0

\* Ord of Mode, derived: the order of the variants in the enum.
ModeRank(m) ==
    CASE m = "ReadWriteExecute" -> 0
      [] m = "ReadWrite" -> 1
      [] m = "Directory" -> 2

\* Mode::as_str: "100755", "100644", "040000"
ModeAsStr(m) ==
    CASE m = "ReadWriteExecute" -> <<49, 48, 48, 55, 53, 53>>
      [] m = "ReadWrite" -> <<49, 48, 48, 54, 52, 52>>
      [] m = "Directory" -> <<48, 52, 48, 48, 48, 48>>

\* Entry::new
Entry(path, id, mode) == [path |-> path, oid |-> id, mode |-> mode]

\* Ord of Entry, derived: by path, then by oid, then by mode.
EntryCmp(e, f) ==
    IF PathCmp(e.path, f.path) # 0 THEN PathCmp(e.path, f.path)
    ELSE IF SliceCmp(e.oid, f.oid) # 0 THEN SliceCmp(e.oid, f.oid)
    ELSE IF ModeRank(e.mode) < ModeRank(f.mode) THEN -1
    ELSE IF ModeRank(e.mode) > ModeRank(f.mode) THEN 1
    ELSE 0

\* A sort that leaves the entries in the order given.
SortAsGiven(entries) == entries

\* entries.sort(): the stable sort of a Vec<Entry> by its Ord.
RECURSIVE Sort(_)
Sort(entries) ==
    IF entries = <<>> THEN <<>>
    ELSE LET n == Len(entries)
             x == entries[n]
             s == Sort(SubSeq(entries, 1, n - 1))
             k == Cardinality({i \in 1..(n - 1) : EntryCmp(s[i], x) <= 0})
         IN  SubSeq(s, 1, k) \o <<x>> \o SubSeq(s, k + 1, n - 1)

\* Tree::serialize: for each entry "{mode} {path}\0" and the 20 bytes of
\* its id.
RECURSIVE TreeSerialize(_)
TreeSerialize(entries) ==
    IF entries = <<>> THEN <<>>
    ELSE LET e == entries[1]
         IN  ModeAsStr(e.mode) \o <<32>> \o e.path \o <<0>> \o e.oid
                \o TreeSerialize(Tail(entries))

\* Tree::new, and the Storable it is: type_name "tree", data() the
\* serialization of the sorted entries.
TreeNew(entries) ==
    LET sorted == Sort(entries)
    IN  [type |-> <<116, 114, 101, 101>>,
         entries |-> sorted,
         data |-> TreeSerialize(sorted)]

(***************************************************************************)
(* Storable::oid, as a function of the object: claim C14.                  *)
(***************************************************************************)

\* The author of the tests of commands.rs, at 2021-01-01T01:01:01+00:00.
TestAuthor ==
    [name |-> <<83, 101, 97, 110>>,
     email |-> <<115, 101, 97, 110, 64, 122, 111, 109, 98, 111, 46, 99, 111, 109>>,
     time |-> 1609462861]

\* "file contents"
FileContents == <<102, 105, 108, 101, 32, 99, 111, 110, 116, 101, 110, 116, 115>>

\* The objects whose id is derived: blobs of 0, 2, 5, 10 and 13 bytes (the
\* files of the tests among them), trees of no, one and two entries, and a
\* first and a second commit.
EncObjects ==
    LET hi == Blob(<<104, 105>>)
        hello == Blob(<<104, 101, 108, 108, 111>>)
        fileTxt == <<102, 105, 108, 101, 46, 116, 120, 116>>
        tree == TreeNew(<<Entry(fileTxt, Oid(hi), "ReadWrite")>>)
        first == CommitNew(None, Oid(tree), TestAuthor,
                           <<109, 101, 115, 115, 97, 103, 101>>)
    IN  { Blob(<<>>), hi, hello, Blob(FileContents),
          Blob(<<48, 49, 50, 51, 52, 53, 54, 55, 56, 57>>),
          TreeNew(<<>>), tree,
          TreeNew(<<Entry(fileTxt, Oid(hello), "ReadWriteExecute"),
                    Entry(<<98>>, Oid(hi), "ReadWrite")>>),
          first,
          CommitNew(Oid(first), Oid(tree), TestAuthor,
                    <<115, 101, 99, 111, 110, 100>>) }

\* Each process holds an object: the first process one, the others another
\* or the same.
InitOid ==
    /\ dirs = {} /\ head = Absent
    /\ \E a, b \in EncObjects :
        obj = [p \in Procs |-> IF p = 1 THEN a ELSE b]
    /\ files = [p \in Procs |-> <<>>]
    /\ args = [p \in Procs |-> <<>>]
    /\ InitRest

\* object.oid()
OidCall(p) ==
    /\ op[p] = "none"
    /\ oid' = [oid EXCEPT ![p] = Oid(obj[p])]
    /\ op' = [op EXCEPT ![p] = "oid"]
    /\ result' = [result EXCEPT ![p] = "ok"]
    /\ UNCHANGED <<dirs, head, headLock, shards, odb, pc, obj, off, fdLive, msg,
                   files, ncalls, conc, lastCommit, hadFinal, args>>

NextOid == \E p \in Procs : OidCall(p)

SpecOid == InitOid /\ [][NextOid]_vars

\* The number that a sequence of decimal digits writes.
RECURSIVE DecimalValue(_)
DecimalValue(d) ==
    IF d = <<>> THEN 0
    ELSE 10 * DecimalValue(SubSeq(d, 1, Len(d) - 1)) + (d[Len(d)] - 48)

\* The canonical encoding enc reads as: the type tag up to the first space,
\* decimal digits (no sign, no leading zero) that write the length of the
\* data up to the first NUL, and then the data and nothing else.
IsCanonical(enc, o) ==
    /\ \E i \in 1..Len(enc) : enc[i] = 32
    /\ \E j \in 1..Len(enc) : enc[j] = 0
    /\ LET i == CHOOSE i \in 1..Len(enc) :
                    enc[i] = 32 /\ \A k \in 1..(i - 1) : enc[k] # 32
           j == CHOOSE j \in 1..Len(enc) :
                    enc[j] = 0 /\ \A k \in 1..(j - 1) : enc[k] # 0
           digits == SubSeq(enc, i + 1, j - 1)
       IN  /\ i < j
           /\ SubSeq(enc, 1, i - 1) = o.type
           /\ digits # <<>>
           /\ \A k \in 1..Len(digits) : digits[k] \in 48..57
           /\ Len(digits) > 1 => digits[1] # 48
           /\ DecimalValue(digits) = Len(o.data)
           /\ SubSeq(enc, j + 1, Len(enc)) = o.data

\* C14: the id that oid() returns is the digest of the canonical encoding of
\* the object (type tag, space, decimal length of the data, NUL, data) and
\* not of its compressed bytes; two processes get equal ids for equal
\* objects; and the id of the blob "file contents" is the digest of
\* "blob 13\0file contents".
C14_IdOfCanonical ==
    \A p \in Procs :
        op[p] = "oid" =>
            /\ IsCanonical(EncodedRaw(obj[p]), obj[p])
            /\ oid[p] = Sha1(EncodedRaw(obj[p]))
            /\ oid[p] # Sha1(Serialize(obj[p]))
            /\ \A q \in Procs :
                (op[q] = "oid" /\ obj[q] = obj[p]) => oid[q] = oid[p]
            /\ obj[p] = Blob(FileContents) =>
                oid[p] = Sha1(<<98, 108, 111, 98, 32, 49, 51, 0>> \o FileContents)

\* Two processes have derived the id of the blob "file contents" and hold
\* the same 20 bytes.
C14_Witness ==
    \E p, q \in Procs :
        /\ p # q
        /\ op[p] = "oid" /\ op[q] = "oid"
        /\ obj[p] = Blob(FileContents) /\ obj[q] = Blob(FileContents)
        /\ oid[p] = oid[q] /\ Len(oid[p]) = 20

(***************************************************************************)
(* Tree::build and the trees of a commit: claims C15 and C16.              *)
(***************************************************************************)

\* C15 as claimed: Tree::build, called by commit with the paths that
\* list_files returned, returns the root Tree and not an error.
C15_BuildReturnsTree ==
    \A p \in Procs :
        pc[p] = "c_build" => TreeBuild(files[p]) # Err

\* The object files of the store that hold a tree.
StoredTrees(fs) ==
    {f \in DOMAIN fs :
        fs[f] # Absent /\ IsPrefix(<<116, 114, 101, 101, 32>>, Inflate(fs[f]))}

\* C16 as claimed: the commit of the workspace of test_commit_nested returns
\* success and leaves at least three tree objects (root, subdir, nested) in
\* the store.
C16_NestedTrees ==
    [][\A p \in Procs :
        (pc[p] = "c_build" /\ files[p] = NestedListing /\ pc'[p] = "idle")
            => /\ result'[p] = "ok"
               /\ Cardinality(StoredTrees(odb')) >= 3]_vars

(***************************************************************************)
(* The commit message: claim C19.                                          *)
(***************************************************************************)

\* C19 as claimed: a commit whose message is absent or of zero length, in an
\* initialized repository, ends with a validation failure, and has stored
\* nothing and left HEAD as it was.
C19_EmptyMessageRejected ==
    \A p \in Procs :
        ( /\ ncalls = 1
          /\ op[p] = "commit" /\ pc[p] = "idle" /\ result[p] # "io"
          /\ msg[p] = None \/ msg[p] = <<>>
          /\ {"git", "objects", "refs"} \subseteq dirs )
        => /\ result[p] = "invalid"
           /\ head = InitHeadText
           /\ \A f \in DOMAIN odb : odb[f] = Absent

(***************************************************************************)
(* Tree::new, as a function of the entries: claims C17 and C18.            *)
(***************************************************************************)

\* The entries that trees are made of: the paths a.b and a/b, of which a/b
\* is there with two ids, and with one of them in two modes.
TreeEntries ==
    LET hi == Oid(Blob(<<104, 105>>))
        hello == Oid(Blob(<<104, 101, 108, 108, 111>>))
    IN  { Entry(<<97, 46, 98>>, hi, "ReadWrite"),
          Entry(<<97, 47, 98>>, hi, "ReadWrite"),
          Entry(<<97, 47, 98>>, hello, "ReadWrite"),
          Entry(<<97, 47, 98>>, hello, "ReadWriteExecute") }

\* The lists that hold each element of S once.
Perms(S) ==
    {l \in [1..Cardinality(S) -> S] : \A i, j \in DOMAIN l : l[i] = l[j] => i = j}

\* Each process holds a list of the same distinct entries: the first
\* process in one order, the others in another.
InitTree ==
    /\ dirs = {} /\ head = Absent
    /\ obj = [p \in Procs |-> Blob(<<>>)]
    /\ \E S \in SUBSET TreeEntries :
        /\ Cardinality(S) <= MaxEntries
        /\ \E a, b \in Perms(S) :
            files = [p \in Procs |-> IF p = 1 THEN a ELSE b]
    /\ args = [p \in Procs |-> <<>>]
    /\ InitRest

\* let tree = Tree::new(entries); tree.oid()
TreeNewCall(p) ==
    /\ op[p] = "none"
    /\ obj' = [obj EXCEPT ![p] = TreeNew(files[p])]
    /\ oid' = [oid EXCEPT ![p] = Oid(obj'[p])]
    /\ op' = [op EXCEPT ![p] = "tree_new"]
    /\ result' = [result EXCEPT ![p] = "ok"]
    /\ UNCHANGED <<dirs, head, headLock, shards, odb, pc, off, fdLive, msg,
                   files, ncalls, conc, lastCommit, hadFinal, args>>

NextTree == \E p \in Procs : TreeNewCall(p)

SpecTree == InitTree /\ [][NextTree]_vars

\* C17: the trees that Tree::new makes of two lists of the same distinct
\* entries, in whatever order each list gives them, have the same payload
\* bytes and the same id.
C17_OrderInvariant ==
    \A p, q \in Procs :
        (op[p] = "tree_new" /\ op[q] = "tree_new")
            => /\ obj[p].data = obj[q].data
               /\ oid[p] = oid[q]

\* Two processes have made the tree of the same three entries, which they
\* held in different orders.
C17_Witness ==
    \E p, q \in Procs :
        /\ op[p] = "tree_new" /\ op[q] = "tree_new"
        /\ files[p] # files[q]
        /\ Len(files[p]) >= 3
        /\ Len(obj[p].entries) = Len(files[p])
        /\ obj[p].data = obj[q].data

\* C18 as claimed: the entries of a tree that Tree::new made are in the
\* bytewise lexicographic order of their raw path bytes.
C18_BytewiseOrder ==
    \A p \in Procs :
        op[p] = "tree_new" =>
            \A i, j \in DOMAIN obj[p].entries :
                i < j => SliceCmp(obj[p].entries[i].path, obj[p].entries[j].path) <= 0

(***************************************************************************)
(* Refs::read_head, as a function of the bytes of HEAD: claim C20.         *)
(***************************************************************************)

\* The text s with the byte w put in after its first k bytes.
InsertAt(s, k, w) == SubSeq(s, 1, k) \o <<w>> \o SubSeq(s, k + 1, Len(s))

\* What HEAD holds when read_head is called: nothing (no file), the text
\* init wrote, no byte, a hex id, a hex id with one blank or newline before
\* it, after it or anywhere within it, with whitespace on both sides, with
\* an upper case digit, one or two digits short, one or two digits long,
\* with a letter that is no hex digit, and with a byte that is not UTF-8.
HeadContents ==
    LET h == Hex(Blob(<<104, 105>>))
    IN  {Absent, InitHeadText, <<>>, h, <<10, 32>> \o h \o <<32, 10>>}
            \cup {InsertAt(h, k, w) : k \in 0..Len(h), w \in {32, 10}}
            \cup {[h EXCEPT ![6] = 65], [h EXCEPT ![6] = 103], [h EXCEPT ![6] = 200]}
            \cup {SubSeq(h, 1, Len(h) - 1), SubSeq(h, 1, Len(h) - 2),
                  h \o <<48>>, h \o <<48, 48>>}

InitHead ==
    /\ dirs = {"git", "objects", "refs"}
    /\ head \in HeadContents
    /\ obj = [p \in Procs |-> Blob(<<>>)]
    /\ files = [p \in Procs |-> <<>>]
    /\ args = [p \in Procs |-> <<>>]
    /\ InitRest

\* refs.read_head()
ReadHeadCall(p) ==
    /\ op[p] = "none"
    /\ oid' = [oid EXCEPT ![p] = ReadHead(head)]
    /\ op' = [op EXCEPT ![p] = "read_head"]
    /\ result' = [result EXCEPT ![p] = IF ReadHead(head) = Err THEN "err" ELSE "ok"]
    /\ UNCHANGED <<dirs, head, headLock, shards, odb, pc, obj, off, fdLive, msg,
                   files, ncalls, conc, lastCommit, hadFinal, args>>

NextHead == \E p \in Procs : ReadHeadCall(p)

SpecHead == InitHead /\ [][NextHead]_vars

\* The text s without its leading and trailing whitespace.
Trim(s) ==
    LET keep == {i \in 1..Len(s) : ~IsWhitespace(s[i])}
    IN  IF keep = {} THEN <<>>
        ELSE SubSeq(s, CHOOSE i \in keep : \A j \in keep : i <= j,
                       CHOOSE i \in keep : \A j \in keep : i >= j)

\* C20 as claimed: read_head succeeds exactly when HEAD exists and its
\* content, with leading and trailing whitespace removed and nothing else,
\* is the hex text of a 20-byte id, which is then the id returned.
C20_TrimmedHexOnly ==
    \A p \in Procs :
        op[p] = "read_head" =>
            /\ result[p] = "ok" <=> (head # Absent /\ FromStr(Trim(head)) # Err)
            /\ result[p] = "ok" => oid[p] = FromStr(Trim(head))

(***************************************************************************)
(* HEAD as commit and init treat it: claims C21 and C22.                   *)
(***************************************************************************)

\* C21 as claimed: a commit, the only call made, with a message, in a
\* repository whose HEAD exists and cannot be parsed as an id (it holds the
\* text init wrote), fails with the error of read_head.
C21_HeadErrorPropagates ==
    \A p \in Procs :
        ( /\ CommitRan(p)
          /\ head # Absent
          /\ ReadHead(head) = Err )
        => result[p] = "read_head"

\* C22 as claimed: HEAD is absent as long as no commit has published an id
\* under the lock, and from then on holds the hex text of an id (init
\* neither creates HEAD nor replaces a HEAD that names a commit).
C22_HeadAbsentUntilCommit ==
    /\ lastCommit = {} => head = Absent
    /\ lastCommit # {} => \E id \in HeadIds : head = HeadHexTable[id]

(***************************************************************************)
(* ObjectID::from_str and ObjectID::as_str, as functions of their inputs:  *)
(* claim C23.  args[p] is the text process p holds, oid[p] its ObjectID.   *)
(***************************************************************************)

\* The texts given to from_str: the hex text of a digest, the same in upper
\* case and with one upper case digit, forty times "0" and forty times "f",
\* the text one and two digits short, one and two digits long, no byte at
\* all, the text with a letter that is no hex digit, with a blank for a
\* digit, and with a newline after it.
HexTexts ==
    LET h == Hex(Blob(<<104, 105>>))
        upper == [i \in 1..Len(h) |-> IF h[i] >= 97 THEN h[i] - 32 ELSE h[i]]
    IN  {h, upper, [h EXCEPT ![6] = 65],
         [i \in 1..(2 * OutputSize) |-> 48], [i \in 1..(2 * OutputSize) |-> 102],
         SubSeq(h, 1, Len(h) - 1), SubSeq(h, 1, Len(h) - 2),
         h \o <<48>>, h \o <<48, 48>>, <<>>,
         [h EXCEPT ![6] = 103], [h EXCEPT ![6] = 32], h \o <<10>>}

InitHex ==
    /\ dirs = {"git", "objects", "refs"}
    /\ head = Absent
    /\ \E a, b \in Objects :
        obj = [p \in Procs |-> IF p = 1 THEN a ELSE b]
    /\ files = [p \in Procs |-> <<>>]
    /\ \E s, t \in HexTexts :
        args = [p \in Procs |-> IF p = 1 THEN s ELSE t]
    /\ InitRest

\* ObjectID::new(&obj[p])
ObjectIDNewCall(p) ==
    /\ op[p] = "none"
    /\ oid' = [oid EXCEPT ![p] = OidTable[obj[p]]]
    /\ op' = [op EXCEPT ![p] = "new"]
    /\ result' = [result EXCEPT ![p] = "ok"]
    /\ UNCHANGED <<dirs, head, headLock, shards, odb, pc, obj, off, fdLive, msg,
                   files, ncalls, conc, lastCommit, hadFinal, args>>

\* ObjectID::from_str(&args[p])
FromStrCall(p) ==
    /\ op[p] \in {"none", "as_str"}
    /\ oid' = [oid EXCEPT ![p] = FromStr(args[p])]
    /\ op' = [op EXCEPT ![p] = "from_str"]
    /\ result' = [result EXCEPT ![p] = IF FromStr(args[p]) = Err THEN "err" ELSE "ok"]
    /\ UNCHANGED <<dirs, head, headLock, shards, odb, pc, obj, off, fdLive, msg,
                   files, ncalls, conc, lastCommit, hadFinal, args>>

\* oid[p].as_str(), of the ObjectID that new or from_str returned
AsStrCall(p) ==
    /\ op[p] \in {"new", "from_str"}
    /\ result[p] = "ok"
    /\ args' = [args EXCEPT ![p] = AsStr(oid[p])]
    /\ op' = [op EXCEPT ![p] = "as_str"]
    /\ UNCHANGED <<dirs, head, headLock, shards, odb, pc, oid, obj, off, fdLive,
                   msg, files, result, ncalls, conc, lastCommit, hadFinal>>

NextHex ==
    \E p \in Procs :
        \/ ObjectIDNewCall(p)
        \/ FromStrCall(p)
        \/ AsStrCall(p)

SpecHex == InitHex /\ [][NextHex]_vars

\* The bytes of "0123456789abcdef" and of "ABCDEF".
LowerHexDigits == (48..57) \cup (97..102)

UpperHexDigits == 65..70

\* The text s is valid hex: an even number of hex digits of either case.
IsHexText(s) ==
    /\ Len(s) % 2 = 0
    /\ \A i \in 1..Len(s) : s[i] \in LowerHexDigits \cup UpperHexDigits

\* C23: from_str fails for every text that is not valid hex and for every
\* valid hex text that does not decode to 20 bytes; the text as_str returns
\* for an ObjectID is 40 lowercase hex digits, and from_str of that text
\* is that ObjectID.
C23_HexRoundTrip ==
    \A p \in Procs :
        /\ ( /\ op[p] = "from_str"
             /\ (~IsHexText(args[p]) \/ Len(args[p]) \div 2 # 20) )
           => (result[p] = "err" /\ oid[p] = Err)
        /\ op[p] = "as_str"
           => /\ Len(args[p]) = 40
              /\ \A i \in 1..40 : args[p][i] \in LowerHexDigits
              /\ FromStr(args[p]) = oid[p]

\* Some process has the text of an ObjectID that from_str made of a text
\* with upper case digits, so that the text differs from the one given;
\* another was refused a valid hex text that decodes to 21 bytes.
C23_Witness ==
    /\ \E p \in Procs :
        /\ op[p] = "as_str"
        /\ \E t \in HexTexts : t # args[p] /\ FromStr(t) = oid[p]
    /\ \E q \in Procs :
        /\ op[q] = "from_str"
        /\ IsHexText(args[q])
        /\ Len(args[q]) = 42
        /\ result[q] = "err"

(***************************************************************************)
(* Commit::new, as a function of its arguments: claim C24.  args[p] holds  *)
(* the arguments of process p, obj[p] the commit it made of them.          *)
(***************************************************************************)

\* An author with the shortest name and address, at the epoch.
OtherAuthor == [name |-> <<97>>, email |-> <<98, 64, 99>>, time |-> 0]

\* Messages given to Commit::new: "message", no byte, "two\nlines\n", and
\* "\nparent x".
CommitMessages ==
    {<<109, 101, 115, 115, 97, 103, 101>>, <<>>,
     <<116, 119, 111, 10, 108, 105, 110, 101, 115, 10>>,
     <<10, 112, 97, 114, 101, 110, 116, 32, 120>>}

\* The arguments of Commit::new: no parent or the id of one, the id of a
\* tree, an author and a message.
CommitNewArgs ==
    [parent : {None} \cup HeadIds,
     tree : HeadIds,
     author : {TestAuthor, OtherAuthor},
     message : CommitMessages]

InitCommit ==
    /\ dirs = {} /\ head = Absent
    /\ obj = [p \in Procs |-> Blob(<<>>)]
    /\ files = [p \in Procs |-> <<>>]
    /\ \E a, b \in CommitNewArgs :
        args = [p \in Procs |-> IF p = 1 THEN a ELSE b]
    /\ InitRest

\* Commit::new(&parent, &tree, author, message)
CommitNewCall(p) ==
    /\ op[p] = "none"
    /\ obj' = [obj EXCEPT ![p] = CommitNew(args[p].parent, args[p].tree,
                                           args[p].author, args[p].message)]
    /\ op' = [op EXCEPT ![p] = "commit_new"]
    /\ result' = [result EXCEPT ![p] = "ok"]
    /\ UNCHANGED <<dirs, head, headLock, shards, odb, pc, oid, off, fdLive, msg,
                   files, ncalls, conc, lastCommit, hadFinal, args>>

NextCommit == \E p \in Procs : CommitNewCall(p)

SpecCommit == InitCommit /\ [][NextCommit]_vars

\* The first n lines of the text d, each without the newline that ends it,
\* followed by what is left of d after them; the empty sequence when d has
\* fewer than n newlines.
RECURSIVE TakeLines(_, _)
TakeLines(d, n) ==
    IF n = 0 THEN <<d>>
    ELSE IF \A i \in 1..Len(d) : d[i] # 10 THEN <<>>
    ELSE LET k == CHOOSE i \in 1..Len(d) : d[i] = 10 /\ \A j \in 1..(i - 1) : d[j] # 10
             rest == TakeLines(SubSeq(d, k + 1, Len(d)), n - 1)
         IN  IF Len(rest) = 0 THEN <<>> ELSE <<SubSeq(d, 1, k - 1)>> \o rest

\* The text s begins with the text pre.
StartsWith(s, pre) == Len(s) >= Len(pre) /\ SubSeq(s, 1, Len(pre)) = pre

\* The text s after its first k bytes.
Drop(s, k) == SubSeq(s, k + 1, Len(s))

\* The text s is the word w, a blank, and 40 lowercase hex digits that are
\* the text of the id.
IsIdLine(s, w, id) ==
    /\ StartsWith(s, w \o <<32>>)
    /\ Len(s) = Len(w) + 41
    /\ \A i \in (Len(w) + 2)..Len(s) : s[i] \in LowerHexDigits
    /\ FromStr(Drop(s, Len(w) + 1)) = id

\* C24: the payload of a commit is the line "parent <hex>" exactly when a
\* parent is given, then the line "tree <hex>", then an author line and a
\* committer line that carry the same identity string (which begins with
\* "name <email> "), then one empty line, then the message as it was given.
C24_CommitPayload ==
    \A p \in Procs :
        op[p] = "commit_new" =>
            LET a == args[p]
                given == a.parent # None
                all == TakeLines(obj[p].data, IF given THEN 5 ELSE 4)
                l == IF given THEN Drop(all, 1) ELSE all
                author == <<97, 117, 116, 104, 111, 114>>
                committer == <<99, 111, 109, 109, 105, 116, 116, 101, 114>>
            IN  /\ Len(all) > 0
                /\ given => IsIdLine(all[1], <<112, 97, 114, 101, 110, 116>>, a.parent)
                /\ IsIdLine(l[1], <<116, 114, 101, 101>>, a.tree)
                /\ StartsWith(l[2], author \o <<32>>)
                /\ StartsWith(l[3], committer \o <<32>>)
                /\ Drop(l[2], Len(author) + 1) = Drop(l[3], Len(committer) + 1)
                /\ StartsWith(Drop(l[2], Len(author) + 1),
                              a.author.name \o <<32, 60>> \o a.author.email \o <<62, 32>>)
                /\ l[4] = <<>>
                /\ l[5] = a.message

\* One process made a commit with a parent and a message of two lines,
\* another a commit without a parent.
C24_Witness ==
    /\ \E p \in Procs :
        /\ op[p] = "commit_new"
        /\ args[p].parent # None
        /\ \E i \in 1..(Len(args[p].message) - 1) : args[p].message[i] = 10
        /\ StartsWith(obj[p].data, <<112, 97, 114, 101, 110, 116, 32>>)
    /\ \E q \in Procs :
        /\ op[q] = "commit_new"
        /\ args[q].parent = None
        /\ StartsWith(obj[q].data, <<116, 114, 101, 101, 32>>)

(***************************************************************************)
(* Workspace::list_files, as a function of the directory tree beneath the  *)
(* root: claim C25.  args[p] is the workspace process p lists, files[p]    *)
(* the list returned.                                                      *)
(***************************************************************************)

\* A directory tree is the set of its nodes: the path from the root (the
\* sequence of the names on the way), whether the node is a directory, and
\* whether read_dir may open it (a directory of mode 000 may not).
Node(path, dir, readable) == [path |-> path, dir |-> dir, readable |-> readable]

\* The workspaces listed: a root that holds any of file.txt, .git (a
\* directory with the file objects in it, as in test_ignore_git) and dir;
\* dir holds any of file.txt, a file named .git, and subdir; subdir holds
\* file.txt or nothing (the tree of test_list_files is among them).  dir
\* and subdir are each readable or not.
Workspaces ==
    LET Kinds == {"none", "readable", "unreadable"}
        Tree(rf, g, d, df, dg, s, sf) ==
            {Node(<<>>, TRUE, TRUE)}
                \cup (IF rf THEN {Node(<<"file.txt">>, FALSE, TRUE)} ELSE {})
                \cup (IF g THEN {Node(<<".git">>, TRUE, TRUE),
                                 Node(<<".git", "objects">>, FALSE, TRUE)}
                           ELSE {})
                \cup (IF d = "none" THEN {}
                      ELSE {Node(<<"dir">>, TRUE, d = "readable")}
                            \cup (IF df THEN {Node(<<"dir", "file.txt">>, FALSE, TRUE)}
                                        ELSE {})
                            \cup (IF dg THEN {Node(<<"dir", ".git">>, FALSE, TRUE)}
                                        ELSE {})
                            \cup (IF s = "none" THEN {}
                                  ELSE {Node(<<"dir", "subdir">>, TRUE, s = "readable")}
                                        \cup (IF sf THEN {Node(<<"dir", "subdir", "file.txt">>,
                                                               FALSE, TRUE)}
                                                    ELSE {})))
    IN  {Tree(rf, g, d, df, dg, s, sf) :
            rf \in BOOLEAN, g \in BOOLEAN, d \in Kinds, df \in BOOLEAN,
            dg \in BOOLEAN, s \in Kinds, sf \in BOOLEAN}

\* The names read_dir can return in the directories that are listed.
EntryNames == {"file.txt", ".git", "dir", "subdir"}

\* Workspace::ignored: the last component is ".", ".." or ".git".
Ignored(path) ==
    /\ path # <<>>
    /\ path[Len(path)] \in {".", "..", ".git"}

\* Workspace::list_files_r of the directory at base.  read_dir returns the
\* entries in an order of its own, here the order of their names in ord.
\* The Err of a read_dir that fails is returned (the ? of line 87); each
\* entry yields a Result, and flat_map and the two flatten keep the lists of
\* the Ok and drop every Err, so a directory whose listing failed
\* contributes nothing, not even its own path.
RECURSIVE ListFilesR(_, _, _), ListEntries(_, _, _, _)
ListFilesR(ws, base, ord) ==
    IF \E n \in ws : n.path = base /\ n.dir /\ n.readable
    THEN [ok |-> TRUE, entries |-> ListEntries(ws, base, ord, 1)]
    ELSE [ok |-> FALSE, entries |-> <<>>]

ListEntries(ws, base, ord, i) ==
    IF i > Len(ord) THEN <<>>
    ELSE LET entry_path == Append(base, ord[i])
             found == {n \in ws : n.path = entry_path}
             nested == ListFilesR(ws, entry_path, ord)
             this ==
                 IF found = {} THEN <<>>
                 ELSE IF Ignored(entry_path) THEN <<>>
                 ELSE IF \E n \in found : n.dir
                      THEN IF nested.ok THEN Append(nested.entries, entry_path)
                           ELSE <<>>
                 ELSE <<entry_path>>
         IN  this \o ListEntries(ws, base, ord, i + 1)

\* All processes list the same workspace.
InitList ==
    /\ dirs = {} /\ head = Absent
    /\ obj = [p \in Procs |-> Blob(<<>>)]
    /\ files = [p \in Procs |-> <<>>]
    /\ \E ws \in Workspaces : args = [p \in Procs |-> ws]
    /\ InitRest

\* workspace.list_files()
ListFilesCall(p) ==
    /\ op[p] = "none"
    /\ \E ord \in Perms(EntryNames) :
        LET r == ListFilesR(args[p], <<>>, ord)
        IN  /\ files' = [files EXCEPT ![p] = r.entries]
            /\ result' = [result EXCEPT ![p] = IF r.ok THEN "ok" ELSE "io"]
    /\ op' = [op EXCEPT ![p] = "list_files"]
    /\ UNCHANGED <<dirs, head, headLock, shards, odb, pc, oid, obj, off, fdLive,
                   msg, ncalls, conc, lastCommit, hadFinal, args>>

NextList == \E p \in Procs : ListFilesCall(p)

SpecList == InitList /\ [][NextList]_vars

\* The paths of the workspace ws that list_files is to return: those of
\* every file and directory beneath the root, none of whose components is
\* named .git.
Listed(ws) ==
    {n.path : n \in {m \in ws : /\ m.path # <<>>
                                /\ \A i \in 1..Len(m.path) : m.path[i] # ".git"}}

\* C25 as claimed: the list that list_files returns holds the path of every
\* file and directory beneath the root that is not named .git and not
\* beneath an entry named .git, each once, and nothing else.
C25_ListsAllOnce ==
    \A p \in Procs :
        (op[p] = "list_files" /\ result[p] = "ok") =>
            /\ {files[p][i] : i \in 1..Len(files[p])} = Listed(args[p])
            /\ Len(files[p]) = Cardinality(Listed(args[p]))

\* The same, of a workspace all of whose directories can be read.
C25_ListsAllReadable ==
    \A p \in Procs :
        ( /\ op[p] = "list_files" /\ result[p] = "ok"
          /\ \A n \in args[p] : n.readable ) =>
            /\ {files[p][i] : i \in 1..Len(files[p])} = Listed(args[p])
            /\ Len(files[p]) = Cardinality(Listed(args[p]))

(***************************************************************************)
(* A lock left behind: claim C26.                                          *)
(***************************************************************************)

\* HEAD.lock is on disk and no process is between the LockFile::new that
\* made it and its commit: its holder has returned an error or has died.
StaleLock == headLock # Absent /\ \A p \in Procs : ~HoldsLock(p)

\* C26: the step in which the holder of the lock stops without committing
\* (its write fails and update_head returns the error, dropping the
\* LockFile, or the process dies) leaves HEAD.lock on disk and HEAD
\* unchanged; and once HEAD.lock is there without a holder it stays as it
\* is, and every LockFile::new(HEAD) made from then on fails, so that no
\* update_head gets the lock.
C26_StaleLockStays ==
    [][/\ \A p \in Procs :
            ( /\ HoldsLock(p)
              /\ pc'[p] \in {"idle", "crashed"}
              /\ ~(pc'[p] = "idle" /\ result'[p] = "ok") )
            => /\ headLock' = headLock
               /\ headLock' # Absent
               /\ head' = head
               /\ StaleLock'
       /\ StaleLock
            => /\ StaleLock'
               /\ headLock' = headLock
               /\ \A p \in Procs :
                    (pc[p] = "uh_new" /\ pc'[p] \notin {"uh_new", "crashed"})
                        => pc'[p] = "idle" /\ result'[p] = "locked"]_vars

\* A process died holding the lock, and an update_head called when no
\* other call was under way has been refused the lock that was left.
C26_Witness ==
    /\ StaleLock
    /\ \E p, q \in Procs :
        /\ p # q
        /\ op[p] = "update_head" /\ pc[p] = "crashed"
        /\ op[q] = "update_head" /\ pc[q] = "idle" /\ result[q] = "locked"
        /\ conc[q] = {}

(***************************************************************************)
(* Termination of store and update_head: claim C27.  Neither function      *)
(* waits for another process or retries: each of its steps is one system   *)
(* call that returns.  A process that is scheduled takes the next step of  *)
(* its call; that a call fails, or that its process dies, is never forced. *)
(***************************************************************************)

\* The next step of the call of process p, when nothing fails.
Progress(p) ==
    \/ StoreMkdir(p)
    \/ StoreCheck(p)
    \/ StoreOpen(p)
    \/ StoreWrite(p)
    \/ StoreRename(p)
    \/ UpdateHeadNew(p)
    \/ UpdateHeadWrite(p)
    \/ UpdateHeadCommit(p)

\* The object that is stored, and whose id is put in HEAD, under SpecLive.
LiveObject == Blob(<<104, 105>>)

\* Each process is one run of the program, which makes one call; the calls
\* are of one object and one id, so that all of them contend for the same
\* temporary file, final path, lock file and HEAD.
NextLive ==
    \E p \in Procs :
        \/ op[p] = "none" /\ StoreCall(p) /\ obj'[p] = LiveObject
        \/ op[p] = "none" /\ UpdateHeadCall(p) /\ oid'[p] = OidTable[LiveObject]
        \/ Progress(p)
        \/ StoreWriteFail(p)
        \/ UpdateHeadWriteFail(p)
        \/ Crash(p)

SpecLive ==
    /\ InitStore
    /\ [][NextLive]_vars
    /\ \A p \in Procs : WF_vars(Progress(p))

\* C27: every call of store and of update_head that has begun returns
\* (with success or with an error) unless its process dies, whatever the
\* other processes do, a process that died holding HEAD.lock included; and
\* the target of the call, the final path of the object or HEAD, changes
\* only in the step of the rename that ends a successful call, which puts
\* there the bytes staged in the temporary file or in the lock file.
C27_Terminates ==
    /\ \A p \in Procs :
        (pc[p] \notin {"idle", "crashed"}) ~> (pc[p] \in {"idle", "crashed"})
    /\ [][/\ head' # head
            => \E p \in Procs :
                /\ pc[p] = "uh_commit" /\ pc'[p] = "idle" /\ result'[p] = "ok"
                /\ head' = headLock
          /\ \A o \in Objects :
                odb'[FinalPath(Hex(o))] # odb[FinalPath(Hex(o))]
                    => \E p \in Procs :
                        /\ pc[p] = "st_rename" /\ pc'[p] = "idle" /\ result'[p] = "ok"
                        /\ obj[p] = o
                        /\ odb'[FinalPath(Hex(o))] = odb[TmpPath(Hex(o))]]_vars

\* A process died holding HEAD.lock with a whole id staged in it, and
\* the update_head of another process has returned, refused the lock.
C27_Witness ==
    \E p, q \in Procs :
        /\ p # q
        /\ op[p] = "update_head" /\ pc[p] = "crashed"
        /\ headLock # Absent /\ Len(headLock) = 2 * OutputSize
        /\ op[q] = "update_head" /\ pc[q] = "idle" /\ result[q] = "locked"

(***************************************************************************)
(* update_head then read_head: claim C28.                                  *)
(***************************************************************************)

\* The step in which the update_head of process p returns Ok.
UpdateHeadOk(p) ==
    pc[p] = "uh_commit" /\ pc'[p] = "idle" /\ result'[p] = "ok"

\* C28: when an update_head returns Ok, no lock file is left and read_head
\* of the HEAD it leaves returns exactly the id that was passed to it; HEAD
\* changes in no other step of an update_head, neither in one that fails
\* nor in one whose process dies, nor in any step between calls (a write of
\* init apart), so that read_head goes on returning that id until the next
\* update_head returns Ok.
C28_HeadRoundTrip ==
    [][/\ \A p \in Procs :
            UpdateHeadOk(p) => /\ ReadHead(head') = oid[p]
                               /\ ReadHead(head') # Err
                               /\ headLock' = Absent
       /\ ( /\ head' # head
            /\ \A p \in Procs : pc[p] \notin {"init_open", "init_write"} )
            => \E p \in Procs : UpdateHeadOk(p)
       /\ \A p \in Procs :
            ( /\ pc[p] \in {"uh_new", "uh_write", "uh_commit"}
              /\ pc'[p] \in {"idle", "crashed"}
              /\ ~UpdateHeadOk(p) )
            => /\ head' = head
               /\ ReadHead(head') = ReadHead(head)
               /\ headLock # Absent => headLock' = headLock]_vars

\* Two calls of update_head, one after the other, passed different ids and
\* returned Ok: no lock is left, and read_head returns the id of the second
\* and not that of the first.
C28_Witness ==
    \E p, q \in Procs :
        /\ p # q
        /\ op[p] = "update_head" /\ pc[p] = "idle" /\ result[p] = "ok"
        /\ op[q] = "update_head" /\ pc[q] = "idle" /\ result[q] = "ok"
        /\ conc[q] = {}
        /\ lastCommit = {q}
        /\ oid[p] # oid[q]
        /\ headLock = Absent
        /\ ReadHead(head) = oid[q]

(***************************************************************************)
(* A temporary file left behind: claim C29.                                *)
(***************************************************************************)

\* In this step the store of process p, which has created its temporary
\* file and not yet renamed it, ends without success: write_all fails and
\* store returns the error, or the process dies.
StoreStops(p) ==
    /\ pc[p] \in {"st_write", "st_rename"}
    /\ pc'[p] \in {"idle", "crashed"}
    /\ ~(pc'[p] = "idle" /\ result'[p] = "ok")

\* The temporary file of object o is on disk, its final path is not, and
\* no process is writing or about to rename the temporary file.
Orphan(o) ==
    /\ odb[TmpPath(Hex(o))] # Absent
    /\ odb[FinalPath(Hex(o))] = Absent
    /\ \A p \in Procs : ~(obj[p] = o /\ pc[p] \in {"st_write", "st_rename"})

\* C29 as claimed: a store that stops after it has created the temporary
\* file and before its rename leaves the final path of the object absent
\* and the temporary file on disk.
C29_FinalAbsentAfterStop ==
    [][\A p \in Procs :
        StoreStops(p) =>
            /\ odb'[FinalPath(Hex(obj[p]))] = Absent
            /\ odb'[TmpPath(Hex(obj[p]))] # Absent]_vars

\* C29, amended: a store that stops after it has created the temporary file
\* and before its rename changes no file: the temporary file stays on disk
\* and the final path is as it was (absent, unless another writer, which
\* had renamed before this one created its temporary file, has put the
\* object there).  If the final path is absent the temporary file is then
\* an orphan; and as long as an orphan is there it stays, the final path
\* stays absent, and every store of that object that returns fails on the
\* exclusive creation of the temporary file.
C29_OrphanBlocks ==
    [][/\ \A p \in Procs :
            StoreStops(p) =>
                /\ odb' = odb
                /\ odb'[TmpPath(Hex(obj[p]))] # Absent
                /\ odb[FinalPath(Hex(obj[p]))] = Absent => Orphan(obj[p])'
       /\ \A o \in Objects :
            Orphan(o) =>
                /\ Orphan(o)'
                /\ odb'[TmpPath(Hex(o))] = odb[TmpPath(Hex(o))]
                /\ \A p \in Procs :
                    (obj[p] = o /\ pc[p] \in StorePcs /\ pc'[p] = "idle")
                        => result'[p] = "exists"]_vars

\* A process died with half of an object in the temporary file, and a
\* store of the same object, called when no other call was under way, has
\* failed on the exclusive creation; the object is not stored.
C29_Witness ==
    \E p, q \in Procs :
        /\ p # q
        /\ op[p] = "store" /\ pc[p] = "crashed"
        /\ op[q] = "store" /\ pc[q] = "idle" /\ result[q] = "exists"
        /\ obj[q] = obj[p]
        /\ conc[q] = {}
        /\ Orphan(obj[p])
        /\ Len(odb[TmpPath(Hex(obj[p]))]) > 0
        /\ Len(odb[TmpPath(Hex(obj[p]))]) < Len(Content(obj[p]))

====
